---- MODULE Spec2Model ----
(***************************************************************************)
(* hve-forge: the session drivers (_run_github_stats, _run_retrospective), *)
(* their event handlers and the session configuration builders.            *)
(*                                                                         *)
(* A text is a sequence of one-character strings, so that joining,         *)
(* stripping and truncating are computed as the code computes them.  A     *)
(* fixed literal of the code ("unknown", "(no output)") is one token.      *)
(***************************************************************************)
EXTENDS Integers, Sequences, FiniteSets, TLC

\* ------------------------------------------------------------------ bounds
\* events the session delivers in one run of the driver
MaxEvents == 3
\* events the session delivers in a run of a command given options
MaxCliEvents == 1
\* events the session delivers in a run checked under fair scheduling
MaxFairEvents == 2
\* events a handler made directly is called with
MaxHandlerEvents == 2
\* events handled in verbose mode, by a driver run or by a handler made directly
MaxVerboseEvents == 2
\* events each session delivers when two invocations of a driver run
MaxTwoEvents == 1
\* the longest text and the largest limit _truncate is called with directly
\* (besides the default limit)
MaxTextLen == 3
MaxLimit == 3

\* ------------------------------------------------------- program constants
\* _truncate(text, max_length=500)
DefaultMaxLength == 500
\* _truncate(partial, 200)
PartialMaxLength == 200

\* --------------------------------------------------------- Python values
\* A payload field holds None, a str, an int, a dict, or is not an attribute
\* of the payload object at all (Missing).
PyNone == [t |-> "None"]
PyMissing == [t |-> "Missing"]
PyStr(s) == [t |-> "str", v |-> s]
PyInt(n) == [t |-> "int", v |-> n]
\* a dict with no entry, and a dict with the one entry k: n
PyDict0 == [t |-> "dict", n |-> 0]
PyDict1(k, n) == [t |-> "dict", n |-> 1, k |-> k, v |-> n]

IsStr(x) == x.t = "str"

\* Python truthiness
Truthy(x) ==
    CASE x.t = "None" -> FALSE
      [] x.t = "str" -> x.v # <<>>
      [] x.t = "int" -> x.v # 0
      [] x.t = "dict" -> x.n # 0
      [] OTHER -> TRUE

\* a or b
Or(a, b) == IF Truthy(a) THEN a ELSE b

\* getattr(obj, name, default), given the attribute's value or PyMissing
GetAttr(value, default) == IF value = PyMissing THEN default ELSE value

\* ------------------------------------------------------------------- texts
Whitespace == {" ", "\n"}

RECURSIVE lstrip(_)
lstrip(t) ==
    IF t # <<>> /\ Head(t) \in Whitespace THEN lstrip(Tail(t)) ELSE t

RECURSIVE rstrip(_)
rstrip(t) ==
    IF t # <<>> /\ t[Len(t)] \in Whitespace
    THEN rstrip(SubSeq(t, 1, Len(t) - 1))
    ELSE t

\* str.strip()
strip(t) == rstrip(lstrip(t))

\* "".join(parts)
RECURSIVE join(_)
join(parts) ==
    IF parts = <<>> THEN <<>> ELSE Head(parts) \o join(Tail(parts))

Digits == <<"0", "1", "2", "3", "4", "5", "6", "7", "8", "9">>
DigitChars == {Digits[i] : i \in 1..Len(Digits)}
DigitOf(n) == Digits[n + 1]
ValueOf(c) == (CHOOSE i \in 1..Len(Digits) : Digits[i] = c) - 1

\* str(x): the default string form of a value
NoneText == <<"N", "o", "n", "e">>
Str(x) ==
    CASE x.t = "None" -> NoneText
      [] x.t = "str" -> x.v
      [] x.t = "int" -> <<DigitOf(x.v)>>
      [] x.t = "dict" ->
            IF x.n = 0 THEN <<"{", "}">>
            ELSE <<"{", "'", x.k, "'", ":", " ", DigitOf(x.v), "}">>

\* the one-character ellipsis U+2026
Ellipsis == "<U+2026>"

TruncateAppending(text, max_length) ==
    IF Len(text) <= max_length THEN text ELSE text \o <<Ellipsis>>

TruncateBelow(text, max_length) ==
    IF Len(text) < max_length
    THEN text
    ELSE SubSeq(text, 1, max_length) \o <<Ellipsis>>

truncate(text, max_length) ==
    IF Len(text) <= max_length
    THEN text
    ELSE SubSeq(text, 1, max_length) \o <<Ellipsis>>

\* -------------------------------------------------------------------- JSON
\* The fragment of JSON the model reads and writes: a one-digit number, the
\* empty object and an object with one one-character key and a one-digit
\* value.  JsonFail stands for json.JSONDecodeError.
JsonFail == [t |-> "JSONDecodeError"]

RECURSIVE DropWhitespace(_)
DropWhitespace(t) ==
    IF t = <<>> THEN <<>>
    ELSE IF Head(t) \in Whitespace THEN DropWhitespace(Tail(t))
    ELSE <<Head(t)>> \o DropWhitespace(Tail(t))

\* json.loads(text)
json_loads(text) ==
    LET c == DropWhitespace(text) IN
    IF Len(c) = 1 /\ c[1] \in DigitChars THEN PyInt(ValueOf(c[1]))
    ELSE IF c = <<"{", "}">> THEN PyDict0
    ELSE IF /\ Len(c) = 7
            /\ c[1] = "{" /\ c[2] = "\"" /\ c[4] = "\"" /\ c[5] = ":" /\ c[7] = "}"
            /\ c[3] \notin (Whitespace \cup {"\"", "{", "}", ":"})
            /\ c[6] \in DigitChars
         THEN PyDict1(c[3], ValueOf(c[6]))
    ELSE JsonFail

\* json.dumps(value, indent=2)
json_dumps(value) ==
    CASE value.t = "int" -> <<DigitOf(value.v)>>
      [] value.t = "dict" ->
            IF value.n = 0 THEN <<"{", "}">>
            ELSE <<"{", "\n", " ", " ", "\"", value.k, "\"", ":", " ",
                   DigitOf(value.v), "\n", "}">>

FormatToolArgumentsRepr(arguments) ==
    IF arguments = PyNone THEN <<>>
    ELSE IF IsStr(arguments)
         THEN LET parsed == json_loads(arguments.v) IN
              IF parsed = JsonFail THEN arguments.v ELSE json_dumps(parsed)
    ELSE Str(arguments)

format_tool_arguments(arguments) ==
    IF arguments = PyNone THEN <<>>
    ELSE IF IsStr(arguments)
         THEN LET parsed == json_loads(arguments.v) IN
              IF parsed = JsonFail THEN arguments.v ELSE json_dumps(parsed)
    ELSE IF arguments.t = "dict" THEN json_dumps(arguments)
    ELSE Str(arguments)

\* ------------------------------------------------------------------ events
\* event.data: every field the handlers read.  repr is str(event.data).
Data0 ==
    [tool_name |-> PyNone, mcp_server_name |-> PyNone, mcp_tool_name |-> PyNone,
     arguments |-> PyNone, has_result |-> FALSE, result_content |-> PyNone,
     progress_message |-> PyNone, partial_output |-> PyNone,
     delta_content |-> PyNone, content |-> PyNone, message |-> PyNone,
     repr |-> <<"D">>]

Event(type, data) == [type |-> type, data |-> data]

UnknownName == <<"unknown">>

ToolLabelAnyServer(event) ==
    LET tool_name == Or(event.data.tool_name, PyStr(UnknownName))
        mcp_server == Or(event.data.mcp_server_name, PyStr(<<>>))
        mcp_tool == Or(event.data.mcp_tool_name, PyStr(<<>>))
    IN  IF Truthy(mcp_tool)
        THEN mcp_server.v \o <<"/">> \o mcp_tool.v
        ELSE tool_name.v

tool_label(event) ==
    LET tool_name == Or(event.data.tool_name, PyStr(UnknownName))
        mcp_server == Or(event.data.mcp_server_name, PyStr(<<>>))
        mcp_tool == Or(event.data.mcp_tool_name, PyStr(<<>>))
    IN  IF Truthy(mcp_server) /\ Truthy(mcp_tool)
        THEN mcp_server.v \o <<"/">> \o mcp_tool.v
        ELSE IF Truthy(mcp_tool) THEN mcp_tool.v
        ELSE tool_name.v

\* ----------------------------------------------------------- configuration
GITHUB_STATS_SYSTEM_MESSAGE == "GITHUB_STATS_SYSTEM_MESSAGE"
RETROSPECTIVE_SYSTEM_MESSAGE == "RETROSPECTIVE_SYSTEM_MESSAGE"
STATS_DEFAULT_PROMPT == "github_stats.DEFAULT_PROMPT"
RETRO_DEFAULT_PROMPT == "retrospective.DEFAULT_PROMPT"

\* the GITHUB_TOKEN environment variable is not set / an option is not given
Absent == "<absent>"
\* a str | None parameter holding None
NoneArg == "<None>"

\* os.environ.get("GITHUB_TOKEN", default)
environ_get(environ, default) == IF environ = Absent THEN default ELSE environ

GithubServerNoDefault(environ) ==
    [command |-> "npx",
     args |-> <<"-y", "@modelcontextprotocol/server-github">>,
     env |-> [GITHUB_PERSONAL_ACCESS_TOKEN |-> environ]]

\* servers["github"]
GithubServer(environ) ==
    [command |-> "npx",
     args |-> <<"-y", "@modelcontextprotocol/server-github">>,
     env |-> [GITHUB_PERSONAL_ACCESS_TOKEN |-> environ_get(environ, "")]]

\* servers["context7"]
Context7Server ==
    [command |-> "npx", args |-> <<"-y", "@upstash/context7-mcp@latest">>]

stats_build_mcp_servers(environ) ==
    [n \in {"github"} |-> GithubServer(environ)]

retro_build_mcp_servers(environ) ==
    [n \in {"github", "context7"} |->
        IF n = "github" THEN GithubServer(environ) ELSE Context7Server]

BuildSessionConfigStatsServers(fl, m, environ) ==
    [model |-> m,
     system_message |->
        [content |-> IF fl = "stats" THEN GITHUB_STATS_SYSTEM_MESSAGE
                     ELSE RETROSPECTIVE_SYSTEM_MESSAGE],
     mcp_servers |-> stats_build_mcp_servers(environ),
     streaming |-> TRUE]

\* _build_session_config(model) of the flow fl
build_session_config(fl, m, environ) ==
    [model |-> m,
     system_message |->
        [content |-> IF fl = "stats" THEN GITHUB_STATS_SYSTEM_MESSAGE
                     ELSE RETROSPECTIVE_SYSTEM_MESSAGE],
     mcp_servers |->
        IF fl = "stats" THEN stats_build_mcp_servers(environ)
        ELSE retro_build_mcp_servers(environ),
     streaming |-> TRUE]

\* typer.Option(None, "--github-token", envvar="GITHUB_TOKEN")
github_token_option(option, environ) ==
    IF option # Absent THEN option
    ELSE IF environ # Absent THEN environ
    ELSE NoneArg

ClientOptionsUnlessNone(token) ==
    IF token # NoneArg THEN [github_token |-> token] ELSE PyNone

\* {"github_token": github_token} if github_token else None
client_options(token) ==
    IF token \notin {NoneArg, ""} THEN [github_token |-> token] ELSE PyNone

\* prompt or DEFAULT_PROMPT
effective_prompt(fl, prompt) ==
    IF prompt \notin {Absent, ""} THEN prompt
    ELSE IF fl = "stats" THEN STATS_DEFAULT_PROMPT ELSE RETRO_DEFAULT_PROMPT

\* ------------------------------------------------------------ command line
\* the commands registered on app in main.py
AppCommands == {"hello", "retrospective"}

\* the options the command functions declare
DeclaredOptions(command) ==
    CASE command = "github-stats" ->
            {"--prompt", "--model", "--github-token", "--verbose"}
      [] command = "retrospective" -> {"--prompt", "--model", "--github-token"}
      [] OTHER -> {}

\* "No such command" / "No such option": exit code 2, nothing runs
UsageError == [runs |-> "usage_error"]

InvokeCommandFixedPrompt(command, option, value) ==
    IF option # Absent /\ option \notin DeclaredOptions(command) THEN UsageError
    ELSE IF command = "hello" THEN [runs |-> "hello"]
    ELSE LET fl == IF command = "github-stats" THEN "stats" ELSE "retro"
             Given(o, default) == IF option = o THEN value ELSE default
         IN  [runs |-> IF fl = "stats" THEN "_run_github_stats"
                       ELSE "_run_retrospective",
              prompt |-> effective_prompt(fl, Absent),
              model |-> Given("--model", "gpt-4o"),
              github_token |-> github_token_option(Given("--github-token", Absent), Absent),
              verbose |-> option = "--verbose",
              system_message |->
                 build_session_config(fl, Given("--model", "gpt-4o"), Absent)
                    .system_message.content]

\* a command invoked with at most one option: the arguments its driver is
\* called with and the system message of the configuration the driver builds
invoke_command(command, option, value) ==
    IF option # Absent /\ option \notin DeclaredOptions(command) THEN UsageError
    ELSE IF command = "hello" THEN [runs |-> "hello"]
    ELSE LET fl == IF command = "github-stats" THEN "stats" ELSE "retro"
             Given(o, default) == IF option = o THEN value ELSE default
         IN  [runs |-> IF fl = "stats" THEN "_run_github_stats"
                       ELSE "_run_retrospective",
              prompt |-> effective_prompt(fl, Given("--prompt", Absent)),
              model |-> Given("--model", "gpt-4o"),
              github_token |-> github_token_option(Given("--github-token", Absent), Absent),
              verbose |-> option = "--verbose",
              system_message |->
                 build_session_config(fl, Given("--model", "gpt-4o"), Absent)
                    .system_message.content]

\* app(): the callback prints the help when no command is named
app_invoke(command, option, value) ==
    IF command = Absent THEN [runs |-> "help"]
    ELSE IF command \notin AppCommands THEN UsageError
    ELSE invoke_command(command, option, value)

\* ------------------------------------------------------------------- state
VARIABLES
    flow,             \* "stats" (github_stats.py) or "retro" (retrospective.py)
    verbose,          \* --verbose
    opt_token,        \* --github-token, or Absent
    environ,          \* the GITHUB_TOKEN environment variable, or Absent
    model,            \* --model
    opt_prompt,       \* --prompt, or Absent
    binary,           \* the bundled copilot binary: "absent", "noexec", "exec"
    pc,               \* the call the driver is awaiting
    client_opts,      \* the argument CopilotClient was constructed with
    session_config,   \* the argument of client.create_session
    sent_prompt,      \* the prompt given to session.send
    done,             \* asyncio.Event: is_set()
    error_message,    \* list[str]
    message_buffer,   \* list[str]
    live,             \* the Live display: "none", "started", "stopped"
    out,              \* what was printed and the calls on the display, in order
    handler_raised,   \* on_event has raised
    calls,            \* the calls made on the client and the session, in order
    handled,          \* the events on_event was called with, in order
    exc,              \* the exception the try block ended with
    outcome,          \* how the driver ended
    budget,           \* events the session may still deliver
    fn_call,          \* the last direct call of a function: its name and arguments
    fn_result,        \* what that call returned
    other             \* the parameters and locals of a second, suspended invocation

cli == <<flow, verbose, opt_token, environ, model, opt_prompt>>
hvars == <<done, error_message, message_buffer, live, out, handler_raised>>
unit == <<fn_call, fn_result, other>>
vars == <<flow, verbose, opt_token, environ, model, opt_prompt, binary, pc,
          client_opts, session_config, sent_prompt, done, error_message,
          message_buffer, live, out, handler_raised, calls, handled, exc,
          outcome, budget, fn_call, fn_result, other>>

Unset == [t |-> "unset"]
NoCall == [fn |-> "none"]
NoOther == [id |-> 0]
Entry(op, label, text) == [op |-> op, label |-> label, text |-> text]

\* ---------------------------------------------------------- event handlers
\* The handler's effect on the state its closure captures.
Effect(d, em, mb, lv, o) ==
    /\ done' = d
    /\ error_message' = em
    /\ message_buffer' = mb
    /\ live' = lv
    /\ out' = o
    /\ UNCHANGED handler_raised

Emit(entries) == Effect(done, error_message, message_buffer, live, out \o entries)

Nothing == Effect(done, error_message, message_buffer, live, out)

\* an exception leaves on_event
Raise == handler_raised' = TRUE
         /\ UNCHANGED <<done, error_message, message_buffer, live, out>>

OnToolStart(event) ==
    LET label == tool_label(event) IN
    IF verbose
    THEN LET args_text == format_tool_arguments(event.data.arguments)
             body == IF args_text # <<>> THEN args_text ELSE <<"(no arguments)">>
         IN  Emit(<<Entry("panel.calling_tool", label, body)>>)
    ELSE IF live # "none"
         THEN Emit(<<Entry("live.update.calling", label, <<>>)>>)
         ELSE Nothing

OnToolCompleteTerseGenericName(event) ==
    LET label == tool_label(event) IN
    IF verbose
    THEN IF event.data.has_result /\ ~IsStr(event.data.result_content)
         THEN Raise
         ELSE LET result_text ==
                      IF event.data.has_result
                      THEN truncate(event.data.result_content.v, DefaultMaxLength)
                      ELSE <<>>
                  body == IF result_text # <<>> THEN result_text ELSE <<"(no output)">>
              IN  Emit(<<Entry("panel.tool_complete", label, body)>>)
    ELSE IF live # "none"
         THEN Emit(<<Entry("live.update.complete",
                           Or(event.data.tool_name, PyStr(UnknownName)).v, <<>>)>>)
         ELSE Nothing

OnToolComplete(event) ==
    LET label == tool_label(event) IN
    IF verbose
    THEN IF event.data.has_result /\ ~IsStr(event.data.result_content)
         THEN Raise  \* len() of a value that is no str
         ELSE LET result_text ==
                      IF event.data.has_result
                      THEN truncate(event.data.result_content.v, DefaultMaxLength)
                      ELSE <<>>
                  body == IF result_text # <<>> THEN result_text ELSE <<"(no output)">>
              IN  Emit(<<Entry("panel.tool_complete", label, body)>>)
    ELSE IF live # "none"
         THEN Emit(<<Entry("live.update.complete", label, <<>>)>>)
         ELSE Nothing

OnToolProgressAnyMode(event) ==
    LET progress == Or(event.data.progress_message, PyStr(<<>>)) IN
    IF Truthy(progress)
    THEN Emit(<<Entry("print.progress", <<>>, Str(progress))>>)
    ELSE Nothing

OnToolProgress(event) ==
    LET progress == Or(event.data.progress_message, PyStr(<<>>)) IN
    IF Truthy(progress) /\ verbose
    THEN Emit(<<Entry("print.progress", <<>>, Str(progress))>>)
    ELSE Nothing

OnToolPartialResult(event) ==
    LET partial == Or(event.data.partial_output, PyStr(<<>>)) IN
    IF Truthy(partial) /\ verbose
    THEN IF ~IsStr(partial) THEN Raise
         ELSE Emit(<<Entry("print.partial", <<>>, truncate(partial.v, PartialMaxLength))>>)
    ELSE Nothing

OnMessageDeltaPrepend(event) ==
    LET delta == Or(event.data.delta_content, PyStr(<<>>)) IN
    Effect(done, error_message, <<delta.v>> \o message_buffer, live, out)

OnMessageDelta(event) ==
    LET delta == Or(event.data.delta_content, PyStr(<<>>)) IN
    Effect(done, error_message, Append(message_buffer, delta.v), live, out)

OnMessageStopAlways(event) ==
    LET full_text == join(message_buffer)
        stop == ~verbose /\ live # "none"
        stopped == out \o (IF stop THEN <<Entry("live.stop", <<>>, <<>>)>> ELSE <<>>)
    IN  Effect(done, error_message, <<>>,
               IF stop THEN "stopped" ELSE live,
               IF strip(full_text) # <<>>
               THEN stopped \o <<Entry("print.blank", <<>>, <<>>),
                                 Entry("print.markdown", <<>>, full_text),
                                 Entry("print.blank", <<>>, <<>>)>>
               ELSE stopped)

OnMessageKeepBuffer(event) ==
    LET full_text == join(message_buffer) IN
    IF strip(full_text) # <<>>
    THEN LET stop == ~verbose /\ live # "none" IN
         Effect(done, error_message, message_buffer,
                IF stop THEN "stopped" ELSE live,
                out \o (IF stop THEN <<Entry("live.stop", <<>>, <<>>)>> ELSE <<>>)
                    \o <<Entry("print.blank", <<>>, <<>>),
                         Entry("print.markdown", <<>>, full_text),
                         Entry("print.blank", <<>>, <<>>)>>)
    ELSE Effect(done, error_message, message_buffer, live, out)

OnMessage(event) ==
    LET full_text == join(message_buffer) IN
    IF strip(full_text) # <<>>
    THEN LET stop == ~verbose /\ live # "none" IN
         Effect(done, error_message, <<>>,
                IF stop THEN "stopped" ELSE live,
                out \o (IF stop THEN <<Entry("live.stop", <<>>, <<>>)>> ELSE <<>>)
                    \o <<Entry("print.blank", <<>>, <<>>),
                         Entry("print.markdown", <<>>, full_text),
                         Entry("print.blank", <<>>, <<>>)>>)
    ELSE Effect(done, error_message, <<>>, live, out)

OnTurnStartRestarts(event) ==
    IF verbose
    THEN Emit(<<Entry("panel.thinking", <<>>, <<>>)>>)
    ELSE IF live # "none"
         THEN Effect(done, error_message, message_buffer, "started",
                     Append(out, Entry("live.update.thinking", <<>>, <<>>)))
         ELSE Nothing

OnTurnStart(event) ==
    IF verbose
    THEN Emit(<<Entry("panel.thinking", <<>>, <<>>)>>)
    ELSE IF live # "none"
         THEN Emit(<<Entry("live.update.thinking", <<>>, <<>>)>>)
         ELSE Nothing

OnTurnEndSetsDone(event) ==
    Effect(TRUE, error_message, message_buffer, live,
           IF verbose THEN Append(out, Entry("panel.turn_complete", <<>>, <<>>)) ELSE out)

OnTurnEnd(event) ==
    IF verbose THEN Emit(<<Entry("panel.turn_complete", <<>>, <<>>)>>) ELSE Nothing

OnSessionStart(event) ==
    IF verbose THEN Emit(<<Entry("print.session_started", <<>>, <<>>)>>) ELSE Nothing

\* getattr(data, "content", None) or getattr(data, "message", None) or str(data)
stats_error_content(event) ==
    Or(GetAttr(event.data.content, PyNone),
       Or(GetAttr(event.data.message, PyNone), PyStr(event.data.repr)))

OnSessionErrorKeepFirst(event) ==
    LET error_content == stats_error_content(event) IN
    Effect(TRUE,
           IF error_message = <<>> THEN <<Str(error_content)>> ELSE error_message,
           message_buffer, live,
           Append(out, Entry("print.session_error", <<>>, Str(error_content))))

OnSessionErrorIgnoreLate(event) ==
    LET error_content == stats_error_content(event) IN
    IF done THEN Nothing
    ELSE Effect(TRUE, Append(error_message, Str(error_content)), message_buffer, live,
                Append(out, Entry("print.session_error", <<>>, Str(error_content))))

OnSessionErrorRecordOnly(event) ==
    LET error_content == stats_error_content(event) IN
    Effect(done, Append(error_message, Str(error_content)), message_buffer, live,
           Append(out, Entry("print.session_error", <<>>, Str(error_content))))

OnSessionError(event) ==
    LET error_content == stats_error_content(event) IN
    Effect(TRUE, Append(error_message, Str(error_content)), message_buffer, live,
           Append(out, Entry("print.session_error", <<>>, Str(error_content))))

OnSessionIdleToggle(event) ==
    LET stop == ~verbose /\ live # "none" IN
    Effect(~done, error_message, message_buffer,
           IF stop THEN "stopped" ELSE live,
           IF stop THEN Append(out, Entry("live.stop", <<>>, <<>>)) ELSE out)

OnSessionIdleStopAnyMode(event) ==
    LET stop == live # "none" IN
    Effect(TRUE, error_message, message_buffer,
           IF stop THEN "stopped" ELSE live,
           IF stop THEN Append(out, Entry("live.stop", <<>>, <<>>)) ELSE out)

OnSessionIdleStopOnly(event) ==
    LET stop == ~verbose /\ live # "none" IN
    Effect(done, error_message, message_buffer,
           IF stop THEN "stopped" ELSE live,
           IF stop THEN Append(out, Entry("live.stop", <<>>, <<>>)) ELSE out)

OnSessionIdle(event) ==
    LET stop == ~verbose /\ live # "none" IN
    Effect(TRUE, error_message, message_buffer,
           IF stop THEN "stopped" ELSE live,
           IF stop THEN Append(out, Entry("live.stop", <<>>, <<>>)) ELSE out)

\* _make_event_handler(...).on_event of github_stats.py
stats_on_event(event) ==
    LET event_type == event.type IN
    IF event_type = "tool.execution_start" THEN OnToolStart(event)
    ELSE IF event_type = "tool.execution_complete" THEN OnToolComplete(event)
    ELSE IF event_type = "tool.execution_progress" THEN OnToolProgress(event)
    ELSE IF event_type = "tool.execution_partial_result" THEN OnToolPartialResult(event)
    ELSE IF event_type = "assistant.message_delta" THEN OnMessageDelta(event)
    ELSE IF event_type = "assistant.message" THEN OnMessage(event)
    ELSE IF event_type = "assistant.turn_start" THEN OnTurnStart(event)
    ELSE IF event_type = "assistant.turn_end" THEN OnTurnEnd(event)
    ELSE IF event_type = "session.start" THEN OnSessionStart(event)
    ELSE IF event_type = "session.error" THEN OnSessionError(event)
    ELSE IF event_type = "session.idle" THEN OnSessionIdle(event)
    ELSE Nothing

\* getattr(event.data, "content", str(event.data))
retro_error_content(event) == GetAttr(event.data.content, PyStr(event.data.repr))

\* _run_retrospective.on_event of retrospective.py
retro_on_event(event) ==
    IF event.type = "assistant.message_delta"
    THEN Emit(<<Entry("stdout.write", <<>>,
                       Or(event.data.delta_content, PyStr(<<>>)).v)>>)
    ELSE IF event.type = "assistant.message"
    THEN Emit(<<Entry("stdout.write", <<>>, <<"\n">>)>>)
    ELSE IF event.type = "session.error"
    THEN Effect(TRUE, Append(error_message, Str(retro_error_content(event))),
                message_buffer, live, out)
    ELSE IF event.type = "session.idle"
    THEN Effect(TRUE, error_message, message_buffer, live, out)
    ELSE Nothing

OnEventUnknownFails(event) ==
    IF event.type = "session.usage_info"
    THEN Effect(TRUE, Append(error_message, event.data.repr), message_buffer, live, out)
    ELSE IF flow = "stats" THEN stats_on_event(event) ELSE retro_on_event(event)

on_event(event) ==
    IF flow = "stats" THEN stats_on_event(event) ELSE retro_on_event(event)

\* ------------------------------------------------------ the session's events
ToolData ==
    [Data0 EXCEPT !.tool_name = PyStr(<<"t">>), !.mcp_server_name = PyStr(<<"s">>),
                  !.mcp_tool_name = PyStr(<<"m">>)]

EvToolStart == Event("tool.execution_start", [ToolData EXCEPT !.arguments = PyDict1("k", 1)])
EvToolComplete ==
    Event("tool.execution_complete",
          [ToolData EXCEPT !.has_result = TRUE, !.result_content = PyStr(<<"o", "k">>)])
EvToolProgress ==
    Event("tool.execution_progress", [ToolData EXCEPT !.progress_message = PyStr(<<"p">>)])
EvToolPartial ==
    Event("tool.execution_partial_result", [ToolData EXCEPT !.partial_output = PyStr(<<"o">>)])
EvDelta(d) == Event("assistant.message_delta", [Data0 EXCEPT !.delta_content = d])
EvMessage == Event("assistant.message", Data0)
EvTurnStart == Event("assistant.turn_start", Data0)
EvTurnEnd == Event("assistant.turn_end", Data0)
EvSessionStart == Event("session.start", Data0)
EvError(c, m) == Event("session.error", [Data0 EXCEPT !.content = c, !.message = m])
EvIdle == Event("session.idle", Data0)
EvUnknown == Event("session.usage_info", Data0)

EvToolCompleteWith(has, c) ==
    Event("tool.execution_complete",
          [ToolData EXCEPT !.has_result = has, !.result_content = c])

\* a text one character longer than the limit n
LongText(n) == [i \in 1..(n + 1) |-> "a"]

DeltaValues == {PyNone, PyStr(<<" ">>), PyStr(<<"a">>)}

ErrorEvents ==
    {EvError(PyStr(<<"X">>), PyNone), EvError(PyNone, PyStr(<<"M">>)),
     EvError(PyMissing, PyMissing)}

\* the events a session delivers in a run of the driver
SessionEvents ==
    {EvToolStart, EvToolComplete, EvMessage, EvTurnStart, EvIdle, EvUnknown}
    \cup {EvDelta(d) : d \in DeltaValues}
    \cup ErrorEvents

\* every kind of event, with payloads partly populated
AllEvents ==
    SessionEvents
    \cup {EvToolProgress, EvToolPartial, EvTurnEnd, EvSessionStart,
          Event("tool.execution_start", Data0),
          Event("tool.execution_start",
                [Data0 EXCEPT !.mcp_tool_name = PyStr(<<"m">>),
                              !.arguments = PyStr(<<"{", "}">>)]),
          Event("tool.execution_progress", ToolData),
          Event("tool.execution_partial_result", ToolData),
          Event("tool.execution_partial_result",
                [ToolData EXCEPT !.partial_output = PyStr(LongText(PartialMaxLength))]),
          EvToolCompleteWith(FALSE, PyNone),
          EvToolCompleteWith(TRUE, PyNone),
          EvToolCompleteWith(TRUE, PyStr(<<>>)),
          EvToolCompleteWith(TRUE, PyStr(LongText(DefaultMaxLength))),
          EvDelta(PyStr(<<"b">>)),
          EvError(PyStr(<<"Y">>), PyStr(<<"M">>)),
          EvError(PyStr(<<>>), PyStr(<<"M">>)),
          EvError(PyStr(<<>>), PyStr(<<>>)),
          EvError(PyStr(<<>>), PyNone)}

\* ------------------------------------------------------------------ driver
\* the awaits during which the session can call the registered handler
Delivering == {"session.on", "session.send", "done.wait", "session.destroy"}

InitRun(inputs, n) ==
    /\ \E i \in inputs :
          /\ flow = i[1]
          /\ verbose = i[2]
          /\ opt_token = i[3]
          /\ environ = i[4]
          /\ model = i[5]
          /\ opt_prompt = i[6]
          /\ binary = i[7]
    /\ pc = "cli"
    /\ client_opts = Unset
    /\ session_config = Unset
    /\ sent_prompt = Absent
    /\ done = FALSE
    /\ error_message = <<>>
    /\ message_buffer = <<>>
    /\ live = "none"
    /\ out = <<>>
    /\ handler_raised = FALSE
    /\ calls = <<>>
    /\ handled = <<>>
    /\ exc = "none"
    /\ outcome = "running"
    /\ budget = n
    /\ fn_call = NoCall
    /\ fn_result = Unset

InitWith(inputs, n) == InitRun(inputs, n) /\ other = NoOther

\* github_stats(...) / retrospective(...) up to the driver's first await:
\* the banner, _ensure_copilot_cli_executable() (stats only), the client's
\* construction and the call of client.start()
Invoke ==
    /\ pc = "cli"
    /\ out' = Append(out, Entry(IF flow = "stats" THEN "panel.starting" ELSE "echo.starting",
                                <<>>, <<>>))
    /\ binary' = IF flow = "stats" /\ binary = "noexec" THEN "exec" ELSE binary
    /\ client_opts' = client_options(github_token_option(opt_token, environ))
    /\ calls' = Append(calls, "client.start")
    /\ pc' = "client.start"
    /\ UNCHANGED <<unit, cli, session_config, sent_prompt, done, error_message,
                   message_buffer, live, handler_raised, handled, exc, outcome,
                   budget>>

\* the finally clause: await client.stop()
FinallyNoStop(e) ==
    /\ exc' = e
    /\ calls' = calls
    /\ pc' = "client.stop"

Finally(e) ==
    /\ exc' = e
    /\ calls' = Append(calls, "client.stop")
    /\ pc' = "client.stop"

StartReturns ==
    /\ pc = "client.start"
    /\ session_config' = build_session_config(flow, model, environ)
    /\ calls' = Append(calls, "client.create_session")
    /\ pc' = "client.create_session"
    /\ UNCHANGED <<unit, cli, binary, client_opts, sent_prompt, hvars, handled, exc,
                   outcome, budget>>

\* client.start() is awaited before the try block
StartRaises ==
    /\ pc = "client.start"
    /\ exc' = "error"
    /\ outcome' = "raised"
    /\ pc' = "done"
    /\ UNCHANGED <<unit, cli, binary, client_opts, session_config, sent_prompt, hvars,
                   calls, handled, budget>>

CreateReturnsNoDisplay ==
    /\ pc = "client.create_session"
    /\ done' = FALSE
    /\ error_message' = <<>>
    /\ message_buffer' = <<>>
    /\ UNCHANGED <<live, out>>
    /\ calls' = Append(calls, "session.on")
    /\ pc' = "session.on"
    /\ UNCHANGED <<unit, cli, binary, client_opts, session_config, sent_prompt,
                   handler_raised, handled, exc, outcome, budget>>

CreateReturns ==
    /\ pc = "client.create_session"
    /\ done' = FALSE
    /\ error_message' = <<>>
    /\ message_buffer' = <<>>
    /\ IF flow = "stats" /\ ~verbose
       THEN live' = "started" /\ out' = Append(out, Entry("live.start", <<>>, <<>>))
       ELSE UNCHANGED <<live, out>>
    /\ calls' = Append(calls, "session.on")
    /\ pc' = "session.on"
    /\ UNCHANGED <<unit, cli, binary, client_opts, session_config, sent_prompt,
                   handler_raised, handled, exc, outcome, budget>>

CreateRaises ==
    /\ pc = "client.create_session"
    /\ Finally("error")
    /\ UNCHANGED <<unit, cli, binary, client_opts, session_config, sent_prompt, hvars,
                   handled, outcome, budget>>

OnReturnsUnlessDone ==
    /\ pc = "session.on"
    /\ IF done
       THEN /\ pc' = "done.wait"
            /\ UNCHANGED <<sent_prompt, calls>>
       ELSE /\ sent_prompt' = effective_prompt(flow, opt_prompt)
            /\ calls' = Append(calls, "session.send")
            /\ pc' = "session.send"
    /\ UNCHANGED <<unit, cli, binary, client_opts, session_config, hvars, handled, exc,
                   outcome, budget>>

\* session.on(on_event) returns; await session.send({"prompt": prompt})
OnReturns ==
    /\ pc = "session.on"
    /\ sent_prompt' = effective_prompt(flow, opt_prompt)
    /\ calls' = Append(calls, "session.send")
    /\ pc' = "session.send"
    /\ UNCHANGED <<unit, cli, binary, client_opts, session_config, hvars, handled, exc,
                   outcome, budget>>

SendReturns ==
    /\ pc = "session.send"
    /\ pc' = "done.wait"
    /\ UNCHANGED <<unit, cli, binary, client_opts, session_config, sent_prompt, hvars,
                   calls, handled, exc, outcome, budget>>

SendRaisesDestroying ==
    /\ pc = "session.send"
    /\ exc' = "error"
    /\ calls' = calls \o <<"session.destroy", "client.stop">>
    /\ pc' = "client.stop"
    /\ UNCHANGED <<unit, cli, binary, client_opts, session_config, sent_prompt, hvars,
                   handled, outcome, budget>>

SendRaises ==
    /\ pc = "session.send"
    /\ Finally("error")
    /\ UNCHANGED <<unit, cli, binary, client_opts, session_config, sent_prompt, hvars,
                   handled, outcome, budget>>

DeliverUnlessDone(event) ==
    /\ pc \in Delivering
    /\ ~done
    /\ budget > 0
    /\ on_event(event)
    /\ handled' = Append(handled, event)
    /\ budget' = budget - 1
    /\ UNCHANGED <<unit, cli, binary, pc, client_opts, session_config, sent_prompt,
                   calls, exc, outcome>>

\* the session calls the registered handler
Deliver(event) ==
    /\ pc \in Delivering
    /\ budget > 0
    /\ on_event(event)
    /\ handled' = Append(handled, event)
    /\ budget' = budget - 1
    /\ UNCHANGED <<unit, cli, binary, pc, client_opts, session_config, sent_prompt,
                   calls, exc, outcome>>

\* await done.wait() returns; the display is stopped; await session.destroy()
WaitReturnsNoStop ==
    /\ pc = "done.wait"
    /\ done
    /\ calls' = Append(calls, "session.destroy")
    /\ pc' = "session.destroy"
    /\ UNCHANGED <<unit, cli, binary, client_opts, session_config, sent_prompt, hvars,
                   handled, exc, outcome, budget>>

WaitReturnsExitFirst ==
    /\ pc = "done.wait"
    /\ done
    /\ IF live = "started"
       THEN live' = "stopped" /\ out' = Append(out, Entry("live.stop", <<>>, <<>>))
       ELSE UNCHANGED <<live, out>>
    /\ IF error_message # <<>>
       THEN Finally("Exit")
       ELSE /\ calls' = Append(calls, "session.destroy")
            /\ pc' = "session.destroy"
            /\ exc' = exc
    /\ UNCHANGED <<unit, cli, binary, client_opts, session_config, sent_prompt, done,
                   error_message, message_buffer, handler_raised, handled,
                   outcome, budget>>

WaitReturnsUnguarded ==
    /\ pc = "done.wait"
    /\ IF live = "started"
       THEN live' = "stopped" /\ out' = Append(out, Entry("live.stop", <<>>, <<>>))
       ELSE UNCHANGED <<live, out>>
    /\ calls' = Append(calls, "session.destroy")
    /\ pc' = "session.destroy"
    /\ UNCHANGED <<unit, cli, binary, client_opts, session_config, sent_prompt, done,
                   error_message, message_buffer, handler_raised, handled, exc,
                   outcome, budget>>

WaitReturns ==
    /\ pc = "done.wait"
    /\ done
    /\ IF live = "started"
       THEN live' = "stopped" /\ out' = Append(out, Entry("live.stop", <<>>, <<>>))
       ELSE UNCHANGED <<live, out>>
    /\ calls' = Append(calls, "session.destroy")
    /\ pc' = "session.destroy"
    /\ UNCHANGED <<unit, cli, binary, client_opts, session_config, sent_prompt, done,
                   error_message, message_buffer, handler_raised, handled, exc,
                   outcome, budget>>

\* if error_message: print error_message[0]; raise typer.Exit(code=1)
ReportLast ==
    /\ pc = "session.destroy"
    /\ IF error_message # <<>>
       THEN /\ out' = Append(out, Entry("print.error_exit", <<>>,
                                         error_message[Len(error_message)]))
            /\ Finally("Exit")
       ELSE /\ out' = out
            /\ Finally("none")

Report ==
    /\ pc = "session.destroy"
    /\ IF error_message # <<>>
       THEN /\ out' = Append(out, Entry("print.error_exit", <<>>, error_message[1]))
            /\ Finally("Exit")
       ELSE /\ out' = out
            /\ Finally("none")

DestroyReturns ==
    /\ Report
    /\ UNCHANGED <<unit, cli, binary, client_opts, session_config, sent_prompt, done,
                   error_message, message_buffer, live, handler_raised, handled,
                   outcome, budget>>

DestroyRaises ==
    /\ pc = "session.destroy"
    /\ Finally("error")
    /\ UNCHANGED <<unit, cli, binary, client_opts, session_config, sent_prompt, hvars,
                   handled, outcome, budget>>

\* how the driver ends once client.stop() has returned
OutcomeAlwaysOk(e) == "ok"

Outcome(e) ==
    CASE e = "none" -> "ok"
      [] e = "Exit" -> "exit1"
      [] e = "error" -> "raised"

StopReturns ==
    /\ pc = "client.stop"
    /\ outcome' = Outcome(exc)
    /\ pc' = "done"
    /\ UNCHANGED <<unit, cli, binary, client_opts, session_config, sent_prompt, hvars,
                   calls, handled, exc, budget>>

StopRaises ==
    /\ pc = "client.stop"
    /\ exc' = "error"
    /\ outcome' = "raised"
    /\ pc' = "done"
    /\ UNCHANGED <<unit, cli, binary, client_opts, session_config, sent_prompt, hvars,
                   calls, handled, budget>>

DeliverEvent == \E event \in SessionEvents : Deliver(event)

DeliverAny == \E event \in AllEvents : Deliver(event)

\* the driver's own steps
Driver ==
    \/ Invoke
    \/ StartReturns
    \/ StartRaises
    \/ CreateReturns
    \/ CreateRaises
    \/ OnReturns
    \/ SendReturns
    \/ SendRaises
    \/ WaitReturns
    \/ DestroyReturns
    \/ DestroyRaises
    \/ StopReturns
    \/ StopRaises

Next == Driver \/ DeliverEvent

NextCli == Driver \/ DeliverAny

Modes == {<<"stats", TRUE>>, <<"stats", FALSE>>, <<"retro", FALSE>>}

\* a driver run with the options at their defaults
DefaultInputs ==
    {<<m[1], m[2], Absent, Absent, "gpt-4o", Absent, "noexec">> : m \in Modes}

\* the runs the commands can start: the token given as an option, in
\* the environment, both or neither, and the other options given or not
CliInputs ==
    {<<m[1], m[2], t, e, md, Absent, "exec">> :
        m \in Modes, t \in {Absent, "", "T1", "T2"}, e \in {Absent, "T1", "T2"},
        md \in {"gpt-4o", "gpt-5"}}
    \cup {<<m[1], m[2], Absent, Absent, "gpt-4o", p, b>> :
        m \in Modes, p \in {Absent, "", "custom"}, b \in {"absent", "noexec", "exec"}}

Init == InitWith(DefaultInputs, MaxEvents)
Spec == Init /\ [][Next]_vars

InitCli == InitWith(CliInputs, MaxCliEvents)
SpecCli == InitCli /\ [][NextCli]_vars

\* The event loop resumes the driver when the call it awaits has completed,
\* and a call on the client or the session completes, by returning or by
\* raising: a step of the driver that stays possible is eventually taken.
InitFair == InitWith(DefaultInputs, MaxFairEvents)
SpecFair == InitFair /\ [][Next]_vars /\ WF_vars(Driver)

\* ----------------------------------------------------- the handler alone
\* The handler made and called directly, as its tests do, with every event
\* of the alphabet: no driver runs.
\* _make_event_handler(console, done, error_message, message_buffer,
\* verbose, live): live is None or a started display
MakeHandler ==
    /\ pc = "cli"
    /\ pc' = "handler"
    /\ \E lv \in IF flow = "stats" THEN {"none", "started"} ELSE {"none"} :
          live' = lv
    /\ UNCHANGED <<unit, cli, binary, client_opts, session_config, sent_prompt, done,
                   error_message, message_buffer, out, handler_raised, calls,
                   handled, exc, outcome, budget>>

\* on_event(event)
CallHandler ==
    \E event \in AllEvents :
        /\ pc = "handler"
        /\ budget > 0
        /\ on_event(event)
        /\ handled' = Append(handled, event)
        /\ budget' = budget - 1
        /\ UNCHANGED <<unit, cli, binary, pc, client_opts, session_config,
                       sent_prompt, calls, exc, outcome>>

NextHandler == MakeHandler \/ CallHandler

InitHandler == InitWith(DefaultInputs, MaxHandlerEvents)
SpecHandler == InitHandler /\ [][NextHandler]_vars

\* verbose mode: a run of the stats driver with --verbose, or the handler
\* made directly with verbose=True, with or without a display
VerboseInputs == {<<"stats", TRUE, Absent, Absent, "gpt-4o", Absent, "exec">>}
NextVerbose == Driver \/ DeliverAny \/ MakeHandler \/ CallHandler
InitVerbose == InitWith(VerboseInputs, MaxVerboseEvents)
SpecVerbose == InitVerbose /\ [][NextVerbose]_vars

\* two invocations of a driver in one process. Each coroutine has its own
\* parameters and locals; the variables hold those of the invocation that
\* runs, `other` those of the one suspended at an await (or not yet begun,
\* or ended). The environment and the bundled binary belong to the process.
Frame(id) ==
    [id |-> id, flow |-> flow, verbose |-> verbose, opt_token |-> opt_token,
     model |-> model, opt_prompt |-> opt_prompt, pc |-> pc,
     client_opts |-> client_opts, session_config |-> session_config,
     sent_prompt |-> sent_prompt, done |-> done, error_message |-> error_message,
     message_buffer |-> message_buffer, live |-> live, out |-> out,
     handler_raised |-> handler_raised, calls |-> calls, handled |-> handled,
     exc |-> exc, outcome |-> outcome, budget |-> budget]

FreshFrame(id, i, n) ==
    [id |-> id, flow |-> i[1], verbose |-> i[2], opt_token |-> i[3],
     model |-> i[5], opt_prompt |-> i[6], pc |-> "cli",
     client_opts |-> Unset, session_config |-> Unset,
     sent_prompt |-> Absent, done |-> FALSE, error_message |-> <<>>,
     message_buffer |-> <<>>, live |-> "none", out |-> <<>>,
     handler_raised |-> FALSE, calls |-> <<>>, handled |-> <<>>,
     exc |-> "none", outcome |-> "running", budget |-> n]

SwitchSharingBuffer ==
    /\ other.id # 0
    /\ flow' = other.flow
    /\ verbose' = other.verbose
    /\ opt_token' = other.opt_token
    /\ model' = other.model
    /\ opt_prompt' = other.opt_prompt
    /\ pc' = other.pc
    /\ client_opts' = other.client_opts
    /\ session_config' = other.session_config
    /\ sent_prompt' = other.sent_prompt
    /\ done' = other.done
    /\ error_message' = other.error_message
    /\ live' = other.live
    /\ out' = other.out
    /\ handler_raised' = other.handler_raised
    /\ calls' = other.calls
    /\ handled' = other.handled
    /\ exc' = other.exc
    /\ outcome' = other.outcome
    /\ budget' = other.budget
    /\ other' = Frame(3 - other.id)
    /\ UNCHANGED <<message_buffer, environ, binary, fn_call, fn_result>>

\* the event loop goes from one invocation to the other: the one that ran
\* is suspended at its await, the other resumes with its own locals
Switch ==
    /\ other.id # 0
    /\ flow' = other.flow
    /\ verbose' = other.verbose
    /\ opt_token' = other.opt_token
    /\ model' = other.model
    /\ opt_prompt' = other.opt_prompt
    /\ pc' = other.pc
    /\ client_opts' = other.client_opts
    /\ session_config' = other.session_config
    /\ sent_prompt' = other.sent_prompt
    /\ done' = other.done
    /\ error_message' = other.error_message
    /\ message_buffer' = other.message_buffer
    /\ live' = other.live
    /\ out' = other.out
    /\ handler_raised' = other.handler_raised
    /\ calls' = other.calls
    /\ handled' = other.handled
    /\ exc' = other.exc
    /\ outcome' = other.outcome
    /\ budget' = other.budget
    /\ other' = Frame(3 - other.id)
    /\ UNCHANGED <<environ, binary, fn_call, fn_result>>

TwoInputs ==
    {<<"stats", FALSE, Absent, Absent, "gpt-4o", Absent, "exec">>,
     <<"retro", FALSE, Absent, Absent, "gpt-4o", Absent, "exec">>}
TwoEvents == {EvDelta(PyStr(<<"a">>)), EvMessage, EvIdle, EvError(PyStr(<<"X">>), PyNone)}
DeliverTwo == \E event \in TwoEvents : Deliver(event)
NextTwo == Driver \/ DeliverTwo \/ Switch
InitTwo ==
    /\ InitRun(TwoInputs, MaxTwoEvents)
    /\ \E i \in TwoInputs : other = FreshFrame(2, i, MaxTwoEvents)
SpecTwo == InitTwo /\ [][NextTwo]_vars

\* ------------------------------------------------------------ direct calls
\* The functions of the module called directly, as its tests call them: the
\* driver stays where Init left it.
dvars == <<cli, binary, pc, client_opts, session_config, sent_prompt, hvars,
           calls, handled, exc, outcome, budget, other>>

\* the values a name field of a tool event holds
NameValues == {PyNone, PyStr(<<>>), PyStr(<<"a">>), PyStr(<<"b">>)}

ToolEvent(server, tool, generic) ==
    Event("tool.execution_start",
          [Data0 EXCEPT !.mcp_server_name = server, !.mcp_tool_name = tool,
                        !.tool_name = generic])

\* _tool_label(event)
CallToolLabel ==
    \E server \in NameValues, tool \in NameValues, generic \in NameValues :
        /\ fn_call' = [fn |-> "_tool_label", server |-> server, tool |-> tool,
                       generic |-> generic]
        /\ fn_result' = tool_label(ToolEvent(server, tool, generic))
        /\ UNCHANGED dvars

\* the texts of at most n characters; the ellipsis is one of the characters
TextChars == {"a", "b", Ellipsis}
TextsUpTo(n) == UNION {[1..k -> TextChars] : k \in 0..n}

\* texts just below, at and just above the default limit
DefaultLimitTexts ==
    {[i \in 1..n |-> IF i = n THEN "b" ELSE "a"] :
        n \in (DefaultMaxLength - 1)..(DefaultMaxLength + 1)}

TruncateCall(text, max_length, again) ==
    [fn |-> "_truncate", text |-> text, max_length |-> max_length, again |-> again]

\* _truncate(text, max_length)
CallTruncate ==
    \E text \in TextsUpTo(MaxTextLen), max_length \in 0..MaxLimit :
        /\ fn_call' = TruncateCall(text, max_length, FALSE)
        /\ fn_result' = truncate(text, max_length)
        /\ UNCHANGED dvars

\* _truncate(text): max_length takes its default
CallTruncateDefault ==
    \E text \in DefaultLimitTexts :
        /\ fn_call' = TruncateCall(text, DefaultMaxLength, FALSE)
        /\ fn_result' = truncate(text, DefaultMaxLength)
        /\ UNCHANGED dvars

\* _truncate(result, max_length) on the result of the call before
CallTruncateAgain ==
    /\ fn_call.fn = "_truncate"
    /\ ~fn_call.again
    /\ fn_call' = TruncateCall(fn_result, fn_call.max_length, TRUE)
    /\ fn_result' = truncate(fn_result, fn_call.max_length)
    /\ UNCHANGED dvars

\* the values of event.data.arguments: None, a number, a dict, and strings
\* that encode JSON (compact, spaced, indented) or do not
ArgumentKeys == {"k", "a"}
ArgumentDicts ==
    {PyDict0} \cup {PyDict1(k, n) : k \in ArgumentKeys, n \in 0..(Len(Digits) - 1)}
JsonTexts ==
    {json_dumps(d) : d \in ArgumentDicts}
    \cup {DropWhitespace(json_dumps(d)) : d \in ArgumentDicts}
    \cup {<<" ">> \o json_dumps(d) \o <<"\n">> : d \in ArgumentDicts}
    \cup {<<DigitOf(n)>> : n \in 0..(Len(Digits) - 1)}
    \cup {<<"{", " ", "}">>, <<" ", "7">>}
NonJsonTexts ==
    {<<>>, <<"a">>, <<"{">>, <<"}">>, <<"n", "o", "t", " ", "j", "s", "o", "n">>,
     <<"{", "\"", "k", "\"", ":", "}">>, <<"{", "k", ":", "1", "}">>,
     <<"1", " ", "2">>}
    \cup {Str(d) : d \in ArgumentDicts \ {PyDict0}}
ArgumentValues ==
    {PyNone} \cup ArgumentDicts
    \cup {PyInt(n) : n \in 0..(Len(Digits) - 1)}
    \cup {PyStr(t) : t \in JsonTexts \cup NonJsonTexts}

\* _format_tool_arguments(arguments)
CallFormatToolArguments ==
    \E arguments \in ArgumentValues :
        /\ fn_call' = [fn |-> "_format_tool_arguments", arguments |-> arguments]
        /\ fn_result' = format_tool_arguments(arguments)
        /\ UNCHANGED dvars

\* json.loads(result) on the result of _format_tool_arguments(arguments)
CallJsonLoads ==
    /\ fn_call.fn = "_format_tool_arguments"
    /\ fn_call' = [fn |-> "json.loads", text |-> fn_result,
                   arguments |-> fn_call.arguments]
    /\ fn_result' = json_loads(fn_result)
    /\ UNCHANGED dvars

\* what can be typed on the command line: a command name, an option, a value
ReportCommands == {"github-stats", "retrospective"}
OptionNames ==
    {Absent, "--prompt", "--model", "--github-token", "--verbose", "--system-message"}
OptionValues(option) ==
    IF option \in {Absent, "--verbose"} THEN {Absent} ELSE {"", "custom"}

\* app() of main.py with the command line <<command, option, value>>
CallApp ==
    \E command \in {Absent, "hello"} \cup ReportCommands, option \in OptionNames :
        \E value \in OptionValues(option) :
            /\ fn_call' = [fn |-> "app", command |-> command, option |-> option,
                           value |-> value]
            /\ fn_result' = app_invoke(command, option, value)
            /\ UNCHANGED dvars

\* a report command invoked on its own declaration of options
CallCommand ==
    \E command \in ReportCommands, option \in OptionNames :
        \E value \in OptionValues(option) :
            /\ fn_call' = [fn |-> "command", command |-> command,
                           option |-> option, value |-> value]
            /\ fn_result' = invoke_command(command, option, value)
            /\ UNCHANGED dvars

NextUnit ==
    \/ CallApp
    \/ CallCommand
    \/ CallToolLabel
    \/ CallFormatToolArguments
    \/ CallJsonLoads
    \/ CallTruncate
    \/ CallTruncateDefault
    \/ CallTruncateAgain

InitUnit == InitWith({<<"stats", FALSE, Absent, Absent, "gpt-4o", Absent, "exec">>}, 0)
SpecUnit == InitUnit /\ [][NextUnit]_vars

\* ------------------------------------------------------------ properties
Count(seq, x) == Cardinality({i \in 1..Len(seq) : seq[i] = x})
Last(seq) == seq[Len(seq)]
IsError(e) == e.type = "session.error"
IsDelta(e) == e.type = "assistant.message_delta"
IsMessage(e) == e.type = "assistant.message"
ErrorsHandled == SelectSeq(handled, IsError)

\* the calls on the client and the session other than the registration
IsLifecycleCall(c) == c # "session.on"
LifecycleCalls == SelectSeq(calls, IsLifecycleCall)

\* a call on the client or the session raised
CallRaised == exc = "error"

\* the tool-server environment's access token in the built configuration
ServerToken == session_config.mcp_servers["github"].env.GITHUB_PERSONAL_ACCESS_TOKEN

\* C1: every run of the driver that ends, normally or with an error, has
\* called client.stop, and an error raised by a call ends the run as raised.
C1_StopAlwaysCalled ==
    pc = "done" =>
        /\ Count(calls, "client.stop") = 1
        /\ CallRaised => outcome = "raised"

\* C2: when the only event is session.idle and no call raises, the run
\* ends having called start, create_session, send, destroy and stop once
\* each in that order, with the requested model and a "github" server in
\* the configuration, and returns normally.
C2_HappyPath ==
    (pc = "done" /\ handled = <<EvIdle>> /\ ~CallRaised) =>
        /\ LifecycleCalls = <<"client.start", "client.create_session",
                              "session.send", "session.destroy", "client.stop">>
        /\ session_config.model = model
        /\ "github" \in DOMAIN session_config.mcp_servers
        /\ outcome = "ok"

C2_Witness ==
    /\ pc = "done" /\ handled = <<EvIdle>> /\ ~CallRaised
    /\ model = "gpt-5" /\ outcome = "ok"

\* C3 as stated: a run that ends does so with exit code 1 exactly when an
\* error was captured, and returns normally otherwise.
C3_ExitOneIffError ==
    pc = "done" =>
        /\ outcome = "exit1" <=> error_message # <<>>
        /\ outcome # "exit1" => outcome = "ok"

\* C3 amended: a run in which no call raised ends with exit code 1 exactly
\* when an error was captured and returns normally otherwise; a run in
\* which a call raised ends with that exception.
C3_ExitOneIffErrorUnlessRaised ==
    pc = "done" =>
        IF CallRaised THEN outcome = "raised"
        ELSE /\ outcome = "exit1" <=> error_message # <<>>
             /\ outcome # "exit1" => outcome = "ok"

C3_Witness ==
    /\ pc = "done" /\ ~CallRaised /\ outcome = "exit1"
    /\ handled[1] = EvIdle /\ Len(handled) > 1

\* C4: once done is set, no step of the handler or the driver clears it.
C4_DoneLatch == [][done => done']_vars

C4_Witness == done /\ Len(handled) = MaxEvents /\ handled[1] = EvIdle /\ pc = "done"

\* C5 as stated: the error slot never holds more than one captured error.
C5_AtMostOneError == Len(error_message) <= 1

\* C5 amended: the error slot holds one captured error per session.error
\* event handled, so more than one when several were handled.
C5_OneErrorPerEvent == Len(error_message) = Len(ErrorsHandled)

C5_Witness == Len(error_message) > 1

\* the text the flow's handler captures from an error event
CapturedText(e) ==
    IF flow = "stats" THEN Str(stats_error_content(e)) ELSE Str(retro_error_content(e))

IsFailureReport(o) == o.op = "print.error_exit"
FailureReports == SelectSeq(out, IsFailureReport)

\* C6: the first captured error is the text of the first session.error
\* handled, whatever is handled after it, and the failure the driver
\* reports carries that text.
C6_FirstErrorWins ==
    /\ error_message # <<>> =>
          /\ ErrorsHandled # <<>>
          /\ error_message[1] = CapturedText(ErrorsHandled[1])
    /\ \A i \in 1..Len(FailureReports) :
          /\ ErrorsHandled # <<>>
          /\ FailureReports[i].text = CapturedText(ErrorsHandled[1])
    /\ outcome = "exit1" => Len(FailureReports) = 1

C6_Witness ==
    /\ outcome = "exit1"
    /\ Len(ErrorsHandled) > 1
    /\ CapturedText(ErrorsHandled[1]) # CapturedText(ErrorsHandled[2])
    /\ Last(handled) = EvIdle

\* the text of a delta fragment
FragmentText(e) == IF IsStr(e.data.delta_content) THEN e.data.delta_content.v ELSE <<>>

\* For each assistant.message event of h, in order, the concatenation of
\* the delta fragments that arrived since the assistant.message before it.
RECURSIVE Concatenations(_, _)
Concatenations(h, acc) ==
    IF h = <<>> THEN <<>>
    ELSE IF IsDelta(Head(h)) THEN Concatenations(Tail(h), acc \o FragmentText(Head(h)))
    ELSE IF IsMessage(Head(h)) THEN <<acc>> \o Concatenations(Tail(h), <<>>)
    ELSE Concatenations(Tail(h), acc)

IsMarkdown(o) == o.op = "print.markdown"
RECURSIVE Texts(_)
Texts(entries) ==
    IF entries = <<>> THEN <<>> ELSE <<Head(entries).text>> \o Texts(Tail(entries))
Rendered == Texts(SelectSeq(out, IsMarkdown))

NonEmpty(t) == t # <<>>
NonBlank(t) == \E i \in 1..Len(t) : t[i] \notin Whitespace

\* C7 as stated: every assistant.message renders the concatenation of the
\* fragments received before it (nothing when there is no text at all),
\* and leaves the buffer empty.
C7_RendersConcatenation ==
    flow = "stats" =>
        /\ Rendered = SelectSeq(Concatenations(handled, <<>>), NonEmpty)
        /\ (handled # <<>> /\ IsMessage(Last(handled))) => message_buffer = <<>>

\* C7 amended: an assistant.message renders the concatenation of the
\* fragments received before it when that text is not blank, renders
\* nothing when it is blank, and leaves the buffer empty either way.
C7_RendersNonBlankConcatenation ==
    flow = "stats" =>
        /\ Rendered = SelectSeq(Concatenations(handled, <<>>), NonBlank)
        /\ (handled # <<>> /\ IsMessage(Last(handled))) => message_buffer = <<>>

C7_Witness ==
    /\ flow = "stats"
    /\ Len(handled) = 3 /\ IsMessage(handled[3])
    /\ handled[1] = EvDelta(PyStr(<<" ">>)) /\ handled[2] = EvDelta(PyStr(<<"a">>))
    /\ Rendered = << <<" ", "a">> >>
    /\ message_buffer = <<>>

\* C8: with --github-token T the client is constructed with T and the
\* "github" tool server's environment carries T as its access token.
C8_TokenPropagates ==
    (opt_token \in {"T1", "T2"} /\ session_config # Unset) =>
        /\ client_opts = [github_token |-> opt_token]
        /\ ServerToken = opt_token

\* C9: once the client has started the configuration is built, and its
\* "github" access token is the GITHUB_TOKEN variable's value, or the
\* empty string when the variable is not set.
C9_MissingSecretIsEmpty ==
    /\ pc \in {"client.create_session", "session.on", "session.send", "done.wait",
               "session.destroy", "client.stop"} => session_config # Unset
    /\ session_config # Unset =>
          ServerToken = (IF environ = Absent THEN "" ELSE environ)

C9_Witness == session_config # Unset /\ environ = Absent /\ ServerToken = ""

\* C10: the stats configuration declares exactly the "github" server and
\* the retrospective one exactly "github" and "context7"; both carry the
\* requested model, streaming and the flow's system message.
C10_ConfigShape ==
    session_config # Unset =>
        /\ DOMAIN session_config.mcp_servers =
              (IF flow = "stats" THEN {"github"} ELSE {"github", "context7"})
        /\ session_config.model = model
        /\ session_config.streaming = TRUE
        /\ session_config.system_message.content =
              (IF flow = "stats" THEN GITHUB_STATS_SYSTEM_MESSAGE
               ELSE RETROSPECTIVE_SYSTEM_MESSAGE)

C10_Witness ==
    /\ session_config # Unset /\ flow = "retro" /\ model = "gpt-5"
    /\ DOMAIN session_config.mcp_servers = {"github", "context7"}

\* --- C11: _tool_label returns "server/tool" when the server name and the
\* tool name are both non-empty, else the tool name when it is non-empty,
\* else the generic tool-name field, for every triple of empty, absent and
\* non-empty values.  (As stated; it fails when the generic field is empty
\* or None.)
NonEmptyName(x) == IsStr(x) /\ x.v # <<>>
IsLabelCall == fn_call.fn = "_tool_label"
\* the label the precedence gives, GenericIs(text) telling whether the
\* text is what the generic case asks for
LabelByPrecedence(GenericIs(_)) ==
    IF NonEmptyName(fn_call.server) /\ NonEmptyName(fn_call.tool)
    THEN fn_result = fn_call.server.v \o <<"/">> \o fn_call.tool.v
    ELSE IF NonEmptyName(fn_call.tool) THEN fn_result = fn_call.tool.v
    ELSE GenericIs(fn_result)
IsGenericField(text) == IsStr(fn_call.generic) /\ text = fn_call.generic.v
IsGenericFieldOrUnknown(text) ==
    text = IF NonEmptyName(fn_call.generic) THEN fn_call.generic.v ELSE UnknownName
C11_LabelPrecedence == IsLabelCall => LabelByPrecedence(IsGenericField)

\* --- C11 (amended): the same precedence, and where it ends at the generic
\* field the label is that field when it is non-empty and "unknown" when
\* it is empty or None.
C11_LabelPrecedenceOrUnknown ==
    IsLabelCall => LabelByPrecedence(IsGenericFieldOrUnknown)

\* a call with a server name but no tool name, and one with no name at all
C11_Witness ==
    /\ IsLabelCall
    /\ NonEmptyName(fn_call.server)
    /\ ~NonEmptyName(fn_call.tool)
    /\ fn_call.generic = PyNone
    /\ fn_result = UnknownName

\* --- C12: _truncate is idempotent at a fixed limit: truncating the result
\* of a truncation at the same limit returns it unchanged (no second
\* ellipsis), and a text no longer than the limit is returned unchanged.
IsTruncateCall == fn_call.fn = "_truncate"
C12_TruncateIdempotent ==
    IsTruncateCall =>
        /\ fn_call.again => fn_result = fn_call.text
        /\ Len(fn_call.text) <= fn_call.max_length => fn_result = fn_call.text

\* a text that was cut has been truncated a second time
C12_Witness ==
    /\ IsTruncateCall
    /\ fn_call.again
    /\ fn_call.max_length > 0
    /\ Len(fn_call.text) = fn_call.max_length + 1
    /\ fn_call.text[Len(fn_call.text)] = Ellipsis

\* --- C13: when the text is longer than the limit n (500 by default) the
\* result of _truncate is the first n characters of the text followed by
\* one ellipsis, n + 1 characters in all; otherwise the result is the text,
\* with no ellipsis added.
C13_TruncateShape ==
    IsTruncateCall =>
        LET t == fn_call.text
            n == fn_call.max_length
        IN  IF Len(t) > n
            THEN /\ Len(fn_result) = n + 1
                 /\ \A i \in 1..n : fn_result[i] = t[i]
                 /\ fn_result[n + 1] = Ellipsis
            ELSE fn_result = t

\* a text of 501 characters cut at the default limit
C13_Witness ==
    /\ IsTruncateCall
    /\ ~fn_call.again
    /\ fn_call.max_length = DefaultMaxLength
    /\ Len(fn_call.text) = DefaultMaxLength + 1
    /\ Len(fn_result) = DefaultMaxLength + 1
    /\ fn_result # fn_call.text

\* --- C14: _format_tool_arguments round-trips: the formatted text of a
\* mapping parses as JSON to the mapping; the formatted text of a string
\* that encodes JSON parses to the value the string encoded; a string that
\* is not JSON is returned unchanged; None gives the empty string; any
\* other value gives its default string form.
EncodesJson(x) == IsStr(x) /\ json_loads(x.v) # JsonFail
C14_FormatRoundTrips ==
    /\ fn_call.fn = "_format_tool_arguments" =>
          /\ fn_call.arguments = PyNone => fn_result = <<>>
          /\ (IsStr(fn_call.arguments) /\ ~EncodesJson(fn_call.arguments))
                => fn_result = fn_call.arguments.v
          /\ fn_call.arguments.t = "int" => fn_result = Str(fn_call.arguments)
    /\ fn_call.fn = "json.loads" =>
          /\ fn_call.arguments.t = "dict" => fn_result = fn_call.arguments
          /\ EncodesJson(fn_call.arguments)
                => fn_result = json_loads(fn_call.arguments.v)

\* a compact JSON string was formatted over several lines and parsed back
C14_Witness ==
    /\ fn_call.fn = "json.loads"
    /\ EncodesJson(fn_call.arguments)
    /\ fn_call.text # fn_call.arguments.v
    /\ fn_result.t = "dict"
    /\ fn_result.n = 1

\* --- C15: the event handler never raises: whatever event it is called
\* with, in either display mode and with any optional payload field absent,
\* the call returns.
C15_HandlerNeverRaises == ~handler_raised

\* --- C16: the retrospective handler and driver behave as the stats ones
\* do for every event sequence: the same done flag, the same message
\* buffer, the same captured error texts (content, else message, else the
\* string form) and the same exit code.  The state the stats handler
\* reaches on a sequence of events is computed event by event below.
RECURSIVE StatsBuffer(_)
StatsBuffer(h) ==
    IF h = <<>> THEN <<>>
    ELSE LET before == StatsBuffer(SubSeq(h, 1, Len(h) - 1))
             e == h[Len(h)]
         IN  IF IsMessage(e) THEN <<>>
             ELSE IF IsDelta(e)
                  THEN Append(before, Or(e.data.delta_content, PyStr(<<>>)).v)
             ELSE before
StatsErrors(h) ==
    LET errors == SelectSeq(h, IsError)
    IN  [i \in 1..Len(errors) |-> Str(stats_error_content(errors[i]))]
StatsDone(h) == \E i \in 1..Len(h) : h[i].type \in {"session.error", "session.idle"}
C16_RetroBehavesAsStats ==
    /\ done = StatsDone(handled)
    /\ message_buffer = StatsBuffer(handled)
    /\ error_message = StatsErrors(handled)
    /\ outcome \in {"ok", "exit1"} => (outcome = "exit1" <=> StatsErrors(handled) # <<>>)

\* --- C17: the application registers both report commands: github-stats
\* and retrospective each reach their driver, and both accept the prompt,
\* model, github-token and verbose options.
DriverOf(command) ==
    IF command = "github-stats" THEN "_run_github_stats" ELSE "_run_retrospective"
ReportOptions == {"--prompt", "--model", "--github-token", "--verbose"}
C17_BothCommandsRegistered ==
    (/\ fn_call.fn = "app"
     /\ fn_call.command \in ReportCommands
     /\ fn_call.option \in {Absent} \cup ReportOptions)
        => fn_result.runs = DriverOf(fn_call.command)

\* --- C18: the prompt and the system message are both overridable per
\* invocation: the prompt sent is the --prompt value when given and the
\* built-in default otherwise, and the system message of the session
\* configuration is the per-invocation value when one is given.  (As
\* stated; no invocation replaces the system message.)
DefaultPromptOf(command) ==
    IF command = "github-stats" THEN STATS_DEFAULT_PROMPT ELSE RETRO_DEFAULT_PROMPT
SystemMessageOf(command) ==
    IF command = "github-stats" THEN GITHUB_STATS_SYSTEM_MESSAGE
    ELSE RETROSPECTIVE_SYSTEM_MESSAGE
C18_PromptAndSystemMessageOverridable ==
    fn_call.fn = "command" =>
        /\ (fn_call.option = "--prompt" /\ fn_call.value # "") =>
              /\ fn_result.runs = DriverOf(fn_call.command)
              /\ fn_result.prompt = fn_call.value
        /\ fn_call.option \in ({Absent} \cup DeclaredOptions(fn_call.command)) \ {"--prompt"} =>
              /\ fn_result.runs = DriverOf(fn_call.command)
              /\ fn_result.prompt = DefaultPromptOf(fn_call.command)
        /\ fn_call.option = "--system-message" =>
              /\ fn_result.runs = DriverOf(fn_call.command)
              /\ fn_result.system_message = fn_call.value

\* --- C18 (amended): the prompt is overridable per invocation: the prompt
\* the driver is called with is the --prompt value when one is given and is
\* not empty, and the built-in default otherwise.  The system message is
\* not: the configuration carries the command's built-in system message
\* whatever the options, and an option the command does not declare is
\* rejected before anything runs.
C18_OnlyPromptOverridable ==
    fn_call.fn = "command" =>
        IF fn_call.option \in {Absent} \cup DeclaredOptions(fn_call.command)
        THEN /\ fn_result.runs = DriverOf(fn_call.command)
             /\ fn_result.prompt =
                   IF fn_call.option = "--prompt" /\ fn_call.value # ""
                   THEN fn_call.value ELSE DefaultPromptOf(fn_call.command)
             /\ fn_result.system_message = SystemMessageOf(fn_call.command)
        ELSE fn_result = UsageError

\* a custom prompt reached the driver, next to the built-in system message
C18_Witness ==
    /\ fn_call.fn = "command"
    /\ fn_call.option = "--prompt"
    /\ fn_call.value = "custom"
    /\ fn_result.runs = DriverOf(fn_call.command)
    /\ fn_result.prompt = "custom"
    /\ fn_result.system_message = SystemMessageOf(fn_call.command)

\* --- C19: in terse mode the status display is started before the handler
\* is registered and before the prompt is sent, and it is updated once for
\* each tool.execution_start, tool.execution_complete and
\* assistant.turn_start event handled, in the order of the events.
Terse == flow = "stats" /\ ~verbose
IsLiveUpdate(entry) ==
    entry.op \in {"live.update.calling", "live.update.complete", "live.update.thinking"}
IsStatusEvent(e) ==
    e.type \in {"tool.execution_start", "tool.execution_complete", "assistant.turn_start"}
UpdateFor(type) ==
    CASE type = "tool.execution_start" -> "live.update.calling"
      [] type = "tool.execution_complete" -> "live.update.complete"
      [] type = "assistant.turn_start" -> "live.update.thinking"
Called(c) == \E i \in 1..Len(calls) : calls[i] = c
C19_TerseDisplay ==
    Terse =>
        LET updates == SelectSeq(out, IsLiveUpdate)
            status == SelectSeq(handled, IsStatusEvent)
        IN  /\ (Called("session.on") \/ Called("session.send")) =>
                  \E i \in 1..Len(out) :
                      /\ out[i].op = "live.start"
                      /\ \A j \in 1..(i - 1) : ~IsLiveUpdate(out[j])
            /\ Len(updates) = Len(status)
            /\ \A i \in 1..Len(updates) : updates[i].op = UpdateFor(status[i].type)

\* a terse run whose prompt was sent and which handled a tool start, a tool
\* completion and a turn start
C19_Witness ==
    /\ Terse
    /\ Called("session.send")
    /\ Len(SelectSeq(out, IsLiveUpdate)) = Len(SelectSeq(handled, IsStatusEvent))
    /\ \A type \in {"tool.execution_start", "tool.execution_complete",
                     "assistant.turn_start"} :
           \E i \in 1..Len(handled) : handled[i].type = type

\* --- C20: the step that handles a session.error event both records the
\* error text and sets done, in either display mode; once it is taken the
\* driver's wait can return with no further event.
HandlesError == handled' # handled /\ IsError(Last(handled'))
C20_ErrorSetsDoneAtOnce ==
    /\ [][HandlesError =>
            /\ done'
            /\ error_message' = Append(error_message, CapturedText(Last(handled')))]_vars
    /\ []((pc = "done.wait" /\ handled # <<>> /\ IsError(Last(handled)))
            => ENABLED WaitReturns)

\* the wait returned after an error that was the only event of the run
C20_Witness ==
    /\ pc = "session.destroy"
    /\ Len(handled) = 1
    /\ IsError(handled[1])
    /\ error_message = <<CapturedText(handled[1])>>

\* --- C21: done is set only by the handling of a session.idle or a
\* session.error event: no event of another kind and no step of the driver
\* takes done from unset to set.
SetsDoneKinds == {"session.idle", "session.error"}
C21_DoneSetOnlyByIdleOrError ==
    [][(~done /\ done') =>
          /\ handled' = Append(handled, Last(handled'))
          /\ Last(handled').type \in SetsDoneKinds]_vars

\* the driver waits, a turn has ended and done is still unset
C21_Witness ==
    /\ pc = "done.wait"
    /\ ~done
    /\ handled # <<>>
    /\ handled[1].type = "assistant.turn_end"

\* --- C22: the driver never calls session.destroy while done is unset:
\* after send it waits until done is set, and while no session.idle or
\* session.error event has been handled it stays in the wait, no step of
\* its own being possible.
C22_NoDestroyBeforeDone ==
    /\ [][(calls' # calls /\ Last(calls') = "session.destroy") => done]_vars
    /\ [](Called("session.destroy") => done)
    /\ []((pc = "done.wait" /\ ~done) => ~ENABLED Driver)

\* every event the session had to deliver was handled, none was idle or
\* error, and the driver is still waiting
C22_Witness ==
    /\ pc = "done.wait"
    /\ ~done
    /\ budget = 0
    /\ Len(handled) = MaxEvents
    /\ ~Called("session.destroy")

\* --- C23: under fair scheduling, once a session.idle or session.error
\* event has been handled the driver ends and has called client.stop; when
\* it is in its wait it leaves the wait, calls session.destroy, calls
\* client.stop and ends; an error event always ends the wait.
DoneEventHandled == \E i \in 1..Len(handled) : handled[i].type \in SetsDoneKinds
C23_EventuallyTerminates ==
    /\ DoneEventHandled ~> (pc = "done" /\ Called("client.stop"))
    /\ (pc = "done.wait" /\ DoneEventHandled)
          ~> (pc = "done" /\ Called("session.destroy") /\ Called("client.stop"))
    /\ (pc = "done.wait" /\ ErrorsHandled # <<>>) ~> (pc # "done.wait")

\* a run ended after an error, the session destroyed and the client stopped
C23_Witness ==
    /\ pc = "done"
    /\ Len(handled) = 1
    /\ ErrorsHandled # <<>>
    /\ Called("session.destroy")
    /\ Called("client.stop")

\* --- C24: a session error becomes a failure of the command only after
\* the normal teardown: the wait was released, the status display stopped
\* and session.destroy has returned when the exit with code 1 is raised,
\* and client.stop is called next; the exit is never raised before
\* session.destroy has returned.
C24_FailureAfterTeardown ==
    /\ [][(exc # "Exit" /\ exc' = "Exit") =>
             /\ pc = "session.destroy"
             /\ Last(calls) = "session.destroy"
             /\ calls' = Append(calls, "client.stop")
             /\ IsFailureReport(Last(out'))]_vars
    /\ [](exc = "Exit" =>
             /\ done
             /\ ErrorsHandled # <<>>
             /\ live # "started"
             /\ LifecycleCalls = <<"client.start", "client.create_session",
                                   "session.send", "session.destroy", "client.stop">>)
    /\ [](outcome = "exit1" => exc = "Exit")

\* a terse run whose display the driver stopped, about to end with exit 1
C24_Witness ==
    /\ Terse
    /\ exc = "Exit"
    /\ pc = "client.stop"
    /\ IsError(handled[1])
    /\ \E i \in 1..(Len(out) - 1) : out[i].op = "live.stop"

\* --- C25: the handler is registered on the session before the prompt is
\* sent, and the prompt is sent exactly once, also when an event handled
\* during the registration has already set done; the wait then returns at
\* once.
C25_RegisteredThenSentOnce ==
    /\ [](/\ Count(calls, "session.on") <= 1
           /\ Count(calls, "session.send") <= 1
           /\ Called("session.send") =>
                 \E i \in 1..(Len(calls) - 1) :
                     calls[i] = "session.on" /\ calls[i + 1] = "session.send")
    /\ [][(pc = "session.on" /\ pc' # pc) =>
             /\ calls' = Append(calls, "session.send")
             /\ sent_prompt' = effective_prompt(flow, opt_prompt)]_vars
    /\ [](pc \in {"done.wait", "session.destroy"} => Count(calls, "session.send") = 1)
    /\ []((pc = "done.wait" /\ done) => ENABLED WaitReturns)

\* the handler is registered, the prompt is not sent yet and an event has
\* already set done
C25_Witness ==
    /\ pc = "session.on"
    /\ done
    /\ ~Called("session.send")
    /\ sent_prompt = Absent

\* --- C26: a session.error event handled after done is set is ignored: the
\* outcome of the run is the one the first done-setting event gives, so a
\* run whose done was set by session.idle ends normally whatever follows.
\* (As stated; a later error is captured and fails the run.)
FirstDoneEvent ==
    handled[CHOOSE i \in 1..Len(handled) :
                /\ handled[i].type \in SetsDoneKinds
                /\ \A j \in 1..(i - 1) : handled[j].type \notin SetsDoneKinds]
EndedByItself == pc = "done" /\ ~CallRaised /\ DoneEventHandled
C26_LateErrorIgnored ==
    EndedByItself =>
        outcome = IF IsError(FirstDoneEvent) THEN "exit1" ELSE "ok"

\* --- C26 (amended): a session.error event handled after done is set is
\* captured like any other: it is appended to the error list, and a run
\* whose done was set by session.idle fails with exit code 1 exactly when
\* an error was handled afterwards, reporting the first such error.
C26_LateErrorCaptured ==
    /\ [][(done /\ HandlesError) =>
             error_message' = Append(error_message, CapturedText(Last(handled')))]_vars
    /\ []((EndedByItself /\ ~IsError(FirstDoneEvent)) =>
             /\ outcome = "exit1" <=> ErrorsHandled # <<>>
             /\ outcome = "exit1" =>
                   SelectSeq(out, IsFailureReport)
                      = <<Entry("print.error_exit", <<>>, CapturedText(ErrorsHandled[1]))>>)

\* idle set done, an error followed, and the run ended with exit code 1
C26_Witness ==
    /\ pc = "done"
    /\ outcome = "exit1"
    /\ Len(handled) = 2
    /\ handled[1] = EvIdle
    /\ IsError(handled[2])

\* --- C27: the flush is atomic and total: the step that handles an
\* assistant.message renders nothing but the whole buffer and leaves the
\* buffer empty, blank or not and in either mode, so that no fragment is
\* rendered by two assistant.message events.
HandlesMessage == handled' # handled /\ IsMessage(Last(handled'))
Printed == SubSeq(out', Len(out) + 1, Len(out'))
AllFragments == join([i \in 1..Len(handled) |-> FragmentText(handled[i])])
C27_FlushAtomicAndTotal ==
    /\ [][HandlesMessage =>
             /\ message_buffer' = <<>>
             /\ flow = "stats" =>
                   Texts(SelectSeq(Printed, IsMarkdown)) \in {<<>>, <<join(message_buffer)>>}
             /\ (flow = "stats" /\ handled # <<>> /\ IsMessage(Last(handled)))
                   => out' = out]_vars
    /\ []((handled # <<>> /\ IsMessage(Last(handled))) => message_buffer = <<>>)
    /\ [](flow = "stats" => Len(join(Rendered)) <= Len(AllFragments))

\* two assistant.message events after one fragment: it was rendered once
C27_Witness ==
    /\ flow = "stats"
    /\ handled = <<EvDelta(PyStr(<<"a">>)), EvMessage, EvMessage>>
    /\ Rendered = << <<"a">> >>
    /\ message_buffer = <<>>

\* --- C28: in terse mode the step that handles an assistant.message stops
\* the status display, and does so before it prints the message, exactly
\* when the joined buffer holds a character that is not whitespace; when
\* the joined buffer is blank it prints nothing and leaves the display as
\* it is.
C28_StopBeforePrintIffNonBlank ==
    /\ [][(Terse /\ HandlesMessage) =>
             IF NonBlank(join(message_buffer))
             THEN /\ Len(Printed) > 1
                  /\ Printed[1].op = "live.stop"
                  /\ \E i \in 2..Len(Printed) : IsMarkdown(Printed[i])
                  /\ live' = "stopped"
             ELSE /\ Printed = <<>>
                  /\ live' = live]_vars
    /\ [](Terse => \A i \in 1..Len(out) :
                      IsMarkdown(out[i]) =>
                          \E j \in 1..(i - 1) : out[j].op = "live.stop")

\* a blank buffer was flushed: nothing printed, the display still running
C28_Witness ==
    /\ Terse
    /\ handled = <<EvDelta(PyStr(<<" ">>)), EvMessage>>
    /\ live = "started"
    /\ Rendered = <<>>
    /\ message_buffer = <<>>

\* --- C29: in terse mode the status display is not running when
\* session.destroy is called: the handler stopped it (on session.idle or on
\* a non-blank assistant.message) or the driver did after the wait, as on
\* the session.error path, where the handler leaves it running.
IsLiveStop(entry) == entry.op = "live.stop"
C29_DisplayStoppedAtDestroy ==
    /\ [](Terse /\ Called("session.destroy") =>
             /\ live = "stopped"
             /\ SelectSeq(out, IsLiveStop) # <<>>)
    /\ [][(Terse /\ HandlesError) => UNCHANGED live]_vars

\* the error path: only the driver stopped the display, once
C29_Witness ==
    /\ Terse
    /\ pc = "session.destroy"
    /\ Len(handled) = 1
    /\ IsError(handled[1])
    /\ live = "stopped"
    /\ Len(SelectSeq(out, IsLiveStop)) = 1

\* --- C30: frame condition of the handler: the message buffer is changed
\* only by assistant.message_delta, which appends, and assistant.message,
\* which clears; the error list only by session.error; done only by
\* session.idle and session.error; an event of an unknown kind does
\* nothing and changes none of them.
KnownKinds ==
    {"tool.execution_start", "tool.execution_complete", "tool.execution_progress",
     "tool.execution_partial_result", "assistant.message_delta", "assistant.message",
     "assistant.turn_start", "assistant.turn_end", "session.start", "session.error",
     "session.idle"}
Handles(type) == handled' # handled /\ Last(handled').type = type
C30_HandlerFrame ==
    [][\A type \in {e.type : e \in AllEvents} :
          Handles(type) =>
              /\ message_buffer' # message_buffer =>
                    \/ /\ type = "assistant.message_delta"
                       /\ message_buffer' = Append(message_buffer, Last(message_buffer'))
                    \/ /\ type = "assistant.message"
                       /\ message_buffer' = <<>>
              /\ error_message' # error_message => type = "session.error"
              /\ done' # done => type \in SetsDoneKinds
              /\ type \notin KnownKinds => UNCHANGED hvars]_vars

\* a buffer holding a fragment went through an event of an unknown kind
\* untouched
C30_Witness ==
    /\ pc = "handler"
    /\ flow = "stats"
    /\ handled = <<EvDelta(PyStr(<<"a">>)), EvUnknown>>
    /\ message_buffer = << <<"a">> >>
    /\ ~done
    /\ error_message = <<>>

\* --- C31: in terse mode tool.execution_progress,
\* tool.execution_partial_result, assistant.turn_end and session.start are
\* ignored: nothing is printed and the status display is neither updated
\* nor stopped; in verbose mode a progress or partial-result event prints
\* exactly when its text is not empty.
IgnoredWhenTerse ==
    {"tool.execution_progress", "tool.execution_partial_result",
     "assistant.turn_end", "session.start"}
AnnotationText(e) ==
    IF e.type = "tool.execution_progress" THEN e.data.progress_message
    ELSE e.data.partial_output
C31_TerseIgnoresAnnotations ==
    [][\A type \in IgnoredWhenTerse :
          Handles(type) =>
              /\ Terse => UNCHANGED <<out, live>>
              /\ (flow = "stats" /\ verbose
                    /\ type \in {"tool.execution_progress",
                                  "tool.execution_partial_result"}) =>
                    (Printed # <<>> <=> NonEmptyName(AnnotationText(Last(handled'))))]_vars

\* a terse handler with a running display took a progress and a partial
\* result that carry text and printed nothing
C31_Witness ==
    /\ Terse
    /\ pc = "handler"
    /\ live = "started"
    /\ handled = <<EvToolProgress, EvToolPartial>>
    /\ out = <<>>

\* --- C32: in verbose mode the driver creates no status display, and the
\* handler never updates or stops a display, whatever the event, also
\* when it was made with one.
IsLiveCall(entry) ==
    entry.op \in {"live.start", "live.stop", "live.update.calling",
                  "live.update.complete", "live.update.thinking"}
C32_VerboseNoDisplay ==
    /\ [](verbose => SelectSeq(out, IsLiveCall) = <<>>)
    /\ []((verbose /\ pc \notin {"cli", "handler"}) => live = "none")
    /\ [][(verbose /\ handled' # handled) => UNCHANGED live]_vars

\* a verbose handler made with a running display took a turn start and
\* idle; the display is still running
C32_Witness ==
    /\ verbose
    /\ pc = "handler"
    /\ live = "started"
    /\ handled = <<EvTurnStart, EvIdle>>
    /\ done

\* --- C33: on session.error the captured text is the payload's content
\* field when non-empty, else its message field when non-empty, else the
\* string form of the payload, in every mode and in both flows.
HasText(field) == IsStr(field) /\ field.v # <<>>
ErrorTextByFallback(e) ==
    IF HasText(e.data.content) THEN e.data.content.v
    ELSE IF HasText(e.data.message) THEN e.data.message.v
    ELSE e.data.repr
C33_ErrorTextFallback ==
    [][HandlesError =>
          error_message' = Append(error_message, ErrorTextByFallback(Last(handled')))]_vars

\* the same statement for the handler of github_stats.py alone
C33_StatsErrorTextFallback ==
    [][(flow = "stats" /\ HandlesError) =>
          error_message' = Append(error_message, ErrorTextByFallback(Last(handled')))]_vars

\* --- C34: the buffer, the done flag and the error list belong to one
\* invocation of a driver: when two invocations run, one after the other
\* or interleaved, the state and the outcome of each are those its own
\* session's events give it, and a step of one leaves the other's locals
\* as they were.
OwnErrors(fl, h) ==
    LET errors == SelectSeq(h, IsError)
    IN  [i \in 1..Len(errors) |->
            IF fl = "stats" THEN Str(stats_error_content(errors[i]))
            ELSE Str(retro_error_content(errors[i]))]
OwnBuffer(fl, h) == IF fl = "stats" THEN StatsBuffer(h) ELSE <<>>
OwnState(f) ==
    /\ f.done = StatsDone(f.handled)
    /\ f.message_buffer = OwnBuffer(f.flow, f.handled)
    /\ f.error_message = OwnErrors(f.flow, f.handled)
    /\ f.outcome \in {"ok", "exit1"} =>
          (f.outcome = "exit1" <=> OwnErrors(f.flow, f.handled) # <<>>)
C34_RenderStatePrivate ==
    /\ [](OwnState(Frame(0)) /\ OwnState(other))
    /\ [][other'.id = other.id => other' = other]_vars

\* both invocations of a driver ended: the one that runs took an error and
\* failed, the other took idle and succeeded
C34_Witness ==
    /\ pc = "done" /\ outcome = "exit1"
    /\ other.pc = "done" /\ other.outcome = "ok"
    /\ other.handled = <<EvIdle>>
    /\ flow = other.flow

\* --- C35: both display modes show the label _tool_label computes: the
\* step that handles a tool start or a tool completion shows, in the title
\* of the verbose block or in the terse status line, the label of that
\* event, and changes neither the buffer, the done flag nor the error list.
IsToolEvent(e) == e.type \in {"tool.execution_start", "tool.execution_complete"}
HandlesTool == handled' # handled /\ IsToolEvent(Last(handled'))
ShowsLabel(entry) ==
    entry.op \in {"panel.calling_tool", "panel.tool_complete",
                  "live.update.calling", "live.update.complete"}
\* a result whose content is no text: the verbose block is not reached
ResultHasNoText(e) ==
    /\ verbose
    /\ e.type = "tool.execution_complete"
    /\ e.data.has_result
    /\ ~IsStr(e.data.result_content)
C35_SameLabelBothModes ==
    [][HandlesTool =>
          /\ UNCHANGED <<done, error_message, message_buffer>>
          /\ \A i \in 1..Len(Printed) :
                /\ ShowsLabel(Printed[i])
                /\ Printed[i].label = tool_label(Last(handled'))
          /\ (flow = "stats" /\ (verbose \/ live # "none")
                  /\ ~ResultHasNoText(Last(handled')))
                => Len(Printed) = 1]_vars

\* the terse handler showed the labels of a tool start and of a tool
\* completion in the status line
C35_Witness ==
    /\ Terse /\ flow = "stats"
    /\ pc = "handler"
    /\ handled = <<EvToolStart, EvToolComplete>>
    /\ Len(out) = 2
    /\ out[1].label = <<"s", "/", "m">>
    /\ out[2] = Entry("live.update.complete", <<"s", "/", "m">>, <<>>)

\* --- C36: when client.create_session or session.send raises, the driver
\* goes straight to the finally clause: it does not wait, does not stop
\* the status display and does not call session.destroy; it calls
\* client.stop and nothing else, and the run ends with the error.
RaisesBeforeWait ==
    /\ pc \in {"client.create_session", "session.send"}
    /\ pc' = "client.stop"
FailedBeforeWait ==
    /\ pc \in {"client.stop", "done"}
    /\ Called("client.create_session")
    /\ ~Called("session.destroy")
C36_FailureSkipsTeardown ==
    /\ [][RaisesBeforeWait =>
             /\ calls' = Append(calls, "client.stop")
             /\ exc' = "error"
             /\ UNCHANGED <<done, error_message, message_buffer, live, out>>]_vars
    /\ [][FailedBeforeWait => UNCHANGED <<calls, done, error_message, message_buffer,
                                         live, out>>]_vars
    /\ [](FailedBeforeWait =>
             /\ exc = "error"
             /\ Count(calls, "client.stop") = 1 /\ Last(calls) = "client.stop"
             /\ calls[Len(calls) - 1] \in {"client.create_session", "session.send"}
             /\ (Terse /\ Called("session.send") /\ handled = <<>>) => live = "started"
             /\ pc = "done" => outcome = "raised")

\* session.send raised in a terse run: the run ended with the error, the
\* display still running and the session not destroyed
C36_Witness ==
    /\ pc = "done"
    /\ outcome = "raised"
    /\ Terse
    /\ live = "started"
    /\ LifecycleCalls = <<"client.start", "client.create_session", "session.send",
                          "client.stop">>

\* --- C37: the status display is started at most once in a run and never
\* again after it was stopped: a tool or turn-start event handled after
\* the stop still calls update on the stopped display, which stays stopped.
IsLiveStart(entry) == entry.op = "live.start"
HandlesStatus == handled' # handled /\ IsStatusEvent(Last(handled'))
C37_DisplayNeverRestarted ==
    /\ [](Len(SelectSeq(out, IsLiveStart)) <= 1)
    /\ [][live = "stopped" => live' = "stopped"]_vars
    /\ [][(Terse /\ live = "stopped" /\ HandlesStatus) =>
             /\ Len(Printed) = 1
             /\ Printed[1].op = UpdateFor(Last(handled').type)]_vars

\* a message stopped the display, then a tool start updated the stopped
\* display
C37_Witness ==
    /\ Terse
    /\ handled = <<EvDelta(PyStr(<<"a">>)), EvMessage, EvToolStart>>
    /\ live = "stopped"
    /\ Last(out).op = "live.update.calling"
    /\ Len(SelectSeq(out, IsLiveStart)) = 1

\* --- C38: the handler stays registered after done is set: until
\* session.destroy has returned the session can still deliver events and
\* they are handled as before, so a delta handled after done is appended
\* to the buffer and a message handled after done flushes and prints it.
HandlesDelta == handled' # handled /\ IsDelta(Last(handled'))
C38_HandlerActiveAfterDone ==
    /\ []((done /\ pc \in Delivering /\ budget > 0) => ENABLED DeliverEvent)
    /\ [](pc \notin Delivering => ~ENABLED DeliverEvent)
    /\ [][(flow = "stats" /\ done /\ HandlesDelta) =>
             message_buffer' = Append(message_buffer, FragmentText(Last(handled')))]_vars
    /\ [][(flow = "stats" /\ done /\ HandlesMessage) =>
             /\ message_buffer' = <<>>
             /\ Texts(SelectSeq(Printed, IsMarkdown))
                   = IF NonBlank(join(message_buffer)) THEN <<join(message_buffer)>>
                     ELSE <<>>]_vars

\* idle set done; a delta and a message handled after it were printed
C38_Witness ==
    /\ flow = "stats"
    /\ handled = <<EvIdle, EvDelta(PyStr(<<"a">>)), EvMessage>>
    /\ done
    /\ Rendered = << <<"a">> >>
    /\ message_buffer = <<>>

\* --- C39: an empty github token counts as none: the client is constructed
\* with None when the driver's github_token is None or the empty string,
\* and with {"github_token": T} exactly when it is a non-empty string T.
DriverToken == github_token_option(opt_token, environ)
C39_EmptyTokenIsAbsent ==
    client_opts # Unset =>
        IF DriverToken \in {NoneArg, ""}
        THEN client_opts = PyNone
        ELSE client_opts = [github_token |-> DriverToken]

\* a run given --github-token "" whose client was constructed with None
C39_Witness ==
    /\ opt_token = ""
    /\ pc = "client.start"
    /\ client_opts = PyNone

====
